---- MODULE Spec2Model ----
(***************************************************************************)
(* Keccak-f STARK (keccak_stark_multi.rs): the trace generator, the native *)
(* constraint evaluator and the circuit constraint evaluator.              *)
(*                                                                         *)
(* The source fixes 64-bit lanes held as two 32-bit limbs over the         *)
(* Goldilocks field.  TLC's integers are 32 bits wide, so the model keeps  *)
(* the lane width as the bound LimbBits (a lane has 2*LimbBits bits, the   *)
(* source has LimbBits = 32): every 32, 64 and 63 of the source is written *)
(* LimbBits, LaneBits and LaneBits-1, rotation offsets are taken modulo    *)
(* LaneBits and round constants are cut to LaneBits bits, which is the     *)
(* Keccak-f[25*LaneBits] member of the Keccak family run for 24 rounds.    *)
(* Field elements are integers modulo FieldOrder, a prime above every limb *)
(* value, as the Goldilocks prime is above 2^32.                           *)
(***************************************************************************)
EXTENDS Integers, Sequences, FiniteSets, TLC

\* ------------------------------------------------------------------ bounds

\* bits per limb (32 in the source); a lane is two limbs
LimbBits == 2

\* instances are drawn from Instance(0) .. Instance(MaxSeed)
MaxSeed == 3

\* at most this many instances in one call of generate_trace_rows
MaxInstances == 2

\* min_rows is drawn from the multiples 0, MinRowsStep, ...,
\* MaxMinRowsSteps * MinRowsStep
MinRowsStep == 11

MaxMinRowsSteps == 4

\* the evaluators are run on the arbitrary rows AnyRow(0) .. AnyRow(MaxAssignments)
MaxAssignments == 3

\* ------------------------------------------------------------- constants

NUM_ROUNDS == 24

NUM_INPUTS == 25

LaneBits == 2 * LimbBits

RECURSIVE Pow2From(_)
Pow2From(n) == IF n = 0 THEN 1 ELSE 2 * Pow2From(n - 1)

POW2 == [n \in 0..(2 * LimbBits) |-> Pow2From(n)]

Pow2(n) == POW2[n]

LimbSize == Pow2(LimbBits)

IsPrime(n) == n > 1 /\ \A d \in 2..(n - 1) : d * d > n \/ n % d # 0

\* The field: Goldilocks is 2^64 - 2^32 + 1 = LimbSize^2 - LimbSize + 1 at
\* LimbBits = 32; at a smaller width, the least prime from there on.
FieldOrder ==
    LET base == LimbSize * LimbSize - LimbSize + 1
    IN  CHOOSE p \in base..(2 * base) :
            IsPrime(p) /\ \A q \in base..(p - 1) : ~IsPrime(q)

\* ------------------------------------------------------ field arithmetic

FAdd(a, b) == (a + b) % FieldOrder

FSub(a, b) == (a - b) % FieldOrder

FMul(a, b) == (a * b) % FieldOrder

FConst(n) == n % FieldOrder

\* ---------------------------------------------------------- column layout

\* rho rotation offsets, R[x][y] of columns.rs
R ==
    << <<0, 36, 3, 41, 18>>,
       <<1, 44, 10, 45, 2>>,
       <<62, 6, 43, 15, 61>>,
       <<28, 55, 25, 21, 56>>,
       <<27, 20, 39, 8, 14>> >>

reg_step(i) == i

START_A == NUM_ROUNDS

reg_a(x, y) == START_A + (x * 5 + y) * 2

START_C == START_A + 5 * 5 * 2

reg_c(x, z) == START_C + x * LaneBits + z

START_C_PRIME == START_C + 5 * LaneBits

reg_c_prime(x, z) == START_C_PRIME + x * LaneBits + z

START_A_PRIME == START_C_PRIME + 5 * LaneBits

reg_a_prime(x, y, z) == START_A_PRIME + x * LaneBits * 5 + y * LaneBits + z

\* B is a rotation of A': B[x, y] = ROT(A'[a, b], r[a, b]) with
\* a = (x + 3y) % 5, b = x
reg_b(x, y, z) ==
    LET a == (x + 3 * y) % 5
        b == x
        rot == R[a + 1][b + 1] % LaneBits
    IN  reg_a_prime(a, b, (z + LaneBits - rot) % LaneBits)

START_A_PRIME_PRIME == START_A_PRIME + 5 * 5 * LaneBits

reg_a_prime_prime(x, y) == START_A_PRIME_PRIME + x * 2 * 5 + y * 2

START_A_PRIME_PRIME_0_0_BITS == START_A_PRIME_PRIME + 5 * 5 * 2

reg_a_prime_prime_0_0_bit(i) == START_A_PRIME_PRIME_0_0_BITS + i

REG_A_PRIME_PRIME_PRIME_0_0_LO == START_A_PRIME_PRIME_0_0_BITS + LaneBits

REG_A_PRIME_PRIME_PRIME_0_0_HI == REG_A_PRIME_PRIME_PRIME_0_0_LO + 1

\* A'''[x, y] is A''[x, y] itself except for lane (0, 0)
reg_a_prime_prime_prime(x, y) ==
    IF x = 0 /\ y = 0 THEN REG_A_PRIME_PRIME_PRIME_0_0_LO
    ELSE reg_a_prime_prime(x, y)

REG_FILTER == REG_A_PRIME_PRIME_PRIME_0_0_HI + 1

NUM_COLUMNS == REG_FILTER + 1

Cols == 0..(NUM_COLUMNS - 1)

X5 == 0..4

Zs == 0..(LaneBits - 1)

\* the column written by each loop of the generator, back to its loop indices
KeyC == [c \in {reg_c(x, z) : x \in X5, z \in Zs} |->
            CHOOSE k \in X5 \X Zs : reg_c(k[1], k[2]) = c]

KeyCPrime == [c \in {reg_c_prime(x, z) : x \in X5, z \in Zs} |->
                CHOOSE k \in X5 \X Zs : reg_c_prime(k[1], k[2]) = c]

KeyAPrime == [c \in {reg_a_prime(x, y, z) : x \in X5, y \in X5, z \in Zs} |->
                CHOOSE k \in X5 \X X5 \X Zs : reg_a_prime(k[1], k[2], k[3]) = c]

\* <<x, y, h>>: column reg(x, y) + h, h = 0 the lo limb and 1 the hi limb
KeyA == [c \in {reg_a(x, y) + h : x \in X5, y \in X5, h \in 0..1} |->
            CHOOSE k \in X5 \X X5 \X (0..1) : reg_a(k[1], k[2]) + k[3] = c]

KeyAPrimePrime ==
    [c \in {reg_a_prime_prime(x, y) + h : x \in X5, y \in X5, h \in 0..1} |->
        CHOOSE k \in X5 \X X5 \X (0..1) : reg_a_prime_prime(k[1], k[2]) + k[3] = c]

\* ------------------------------------------------------- round constants

\* the set bits of each round constant (constants.rs, RC): 0x...0001,
\* 0x...8082, 0x8000...808A, ...
RC_BITS ==
    << {0}, {1, 7, 15}, {1, 3, 7, 15, 63}, {15, 31, 63},
       {0, 1, 3, 7, 15}, {0, 31}, {0, 7, 15, 31, 63}, {0, 3, 15, 63},
       {1, 3, 7}, {3, 7}, {0, 3, 15, 31}, {1, 3, 31},
       {0, 1, 3, 7, 15, 31}, {0, 1, 3, 7, 63}, {0, 3, 7, 15, 63}, {0, 1, 15, 63},
       {1, 15, 63}, {7, 63}, {1, 3, 15}, {1, 3, 31, 63},
       {0, 7, 15, 31, 63}, {7, 15, 63}, {0, 31}, {3, 15, 31, 63} >>

rc_value_bit(round, i) == IF i \in RC_BITS[round + 1] THEN 1 ELSE 0

\* ---------------------------------------------------------- logic gadgets

\* bitwise xor and and of two non-negative integers below 2^n
RECURSIVE BitXor(_, _, _)
BitXor(a, b, n) ==
    IF n = 0 \/ (a = 0 /\ b = 0) THEN 0
    ELSE (((a % 2) + (b % 2)) % 2) + 2 * BitXor(a \div 2, b \div 2, n - 1)

\* xor of field-encoded bits (logic.rs xor): a fold of integer xor
RECURSIVE XorFold(_, _)
XorFold(xs, n) == IF n = 0 THEN 0 ELSE BitXor(XorFold(xs, n - 1), xs[n], 1)

xor(xs) == XorFold(xs, Len(xs))

\* (not x) and y on field-encoded bits (logic.rs andn)
andn(x, y) == (1 - x) * y

\* ------------------------------------------------------------ trace rows

\* A row is the sequence of its NUM_COLUMNS field elements, column c at
\* position c + 1.  Each loop of the generator writes one family of columns.
Col(row, c) == row[c + 1]

\* evaluate a row expression once (a Vec of field elements, not a closure)
Stored(row) == row \o <<>>

ZeroRow == Stored([i \in 1..NUM_COLUMNS |-> 0])

SetCol(row, c, v) == [row EXCEPT ![c + 1] = v]

\* sum of get_bit(z) * 2^(z - lo) for z in lo..hi-1:
\* (lo..hi).rev().fold(ZERO, |acc, z| acc.double() + get_bit(z))
RECURSIVE FoldDouble(_, _, _)
FoldDouble(get_bit(_), lo, hi) ==
    IF lo >= hi THEN 0
    ELSE FAdd(FMul(2, FoldDouble(get_bit, lo + 1, hi)), get_bit(lo))

\* bit z of input lane (x, y), read from its limb:
\* ((row[reg_a(x, y) + z / 32] as u32) >> (z % 32)) & 1
InputBit(row, x, y, z) ==
    LET is_high_limb == z \div LimbBits
        bit_in_limb == z % LimbBits
        reg_a_limb == reg_a(x, y) + is_high_limb
        a_limb == Col(row, reg_a_limb) % LimbSize
    IN  (a_limb \div Pow2(bit_in_limb)) % 2

\* the round constant's limbs, rc_value(round) & (2^32 - 1) and
\* rc_value(round) >> 32
rc_lo(round) == FoldDouble(LAMBDA i : rc_value_bit(round, i), 0, LimbBits)

rc_hi(round) == FoldDouble(LAMBDA i : rc_value_bit(round, i), LimbBits, LaneBits)

\* the row with columns first, first + 1, ... replaced by vals
WriteCols(row, first, vals) ==
    SubSeq(row, 1, first) \o vals \o SubSeq(row, first + Len(vals) + 1, Len(row))

\* mutant: the flag of the following round is set
SetStepOffByOne(row, round) == SetCol(row, reg_step((round + 1) % NUM_ROUNDS), 1)

\* row[reg_step(round)] = F::ONE
SetStep(row, round) == SetCol(row, reg_step(round), 1)

\* C[x] = xor(A[x, 0], A[x, 1], A[x, 2], A[x, 3], A[x, 4])
PopulateC(row) ==
    WriteCols(row, reg_c(0, 0),
        [j \in 1..Cardinality(DOMAIN KeyC) |->
            LET x == KeyC[reg_c(0, 0) + j - 1][1]
                z == KeyC[reg_c(0, 0) + j - 1][2]
            IN  xor([y \in 1..5 |-> InputBit(row, x, y - 1, z)])])

\* mutant: C' is computed from C[x + 1, z] in place of C[x + 1, z - 1]
PopulateCPrimeUnrotated(row) ==
    WriteCols(row, reg_c_prime(0, 0),
        [j \in 1..Cardinality(DOMAIN KeyCPrime) |->
            LET x == KeyCPrime[reg_c_prime(0, 0) + j - 1][1]
                z == KeyCPrime[reg_c_prime(0, 0) + j - 1][2]
            IN  xor(<< Col(row, reg_c(x, z)),
                       Col(row, reg_c((x + 4) % 5, z)),
                       Col(row, reg_c((x + 1) % 5, z)) >>)])

\* C'[x, z] = xor(C[x, z], C[x - 1, z], C[x + 1, z - 1])
PopulateCPrime(row) ==
    WriteCols(row, reg_c_prime(0, 0),
        [j \in 1..Cardinality(DOMAIN KeyCPrime) |->
            LET x == KeyCPrime[reg_c_prime(0, 0) + j - 1][1]
                z == KeyCPrime[reg_c_prime(0, 0) + j - 1][2]
            IN  xor(<< Col(row, reg_c(x, z)),
                       Col(row, reg_c((x + 4) % 5, z)),
                       Col(row, reg_c((x + 1) % 5, (z + LaneBits - 1) % LaneBits)) >>)])

\* mutant: A' is the xor of A and C' alone
PopulateAPrimeWithoutC(row) ==
    WriteCols(row, reg_a_prime(0, 0, 0),
        [j \in 1..Cardinality(DOMAIN KeyAPrime) |->
            LET x == KeyAPrime[reg_a_prime(0, 0, 0) + j - 1][1]
                y == KeyAPrime[reg_a_prime(0, 0, 0) + j - 1][2]
                z == KeyAPrime[reg_a_prime(0, 0, 0) + j - 1][3]
            IN  xor(<< InputBit(row, x, y, z),
                       Col(row, reg_c_prime(x, z)) >>)])

\* A'[x, y, z] = xor(A[x, y, z], C[x, z], C'[x, z])
PopulateAPrime(row) ==
    WriteCols(row, reg_a_prime(0, 0, 0),
        [j \in 1..Cardinality(DOMAIN KeyAPrime) |->
            LET x == KeyAPrime[reg_a_prime(0, 0, 0) + j - 1][1]
                y == KeyAPrime[reg_a_prime(0, 0, 0) + j - 1][2]
                z == KeyAPrime[reg_a_prime(0, 0, 0) + j - 1][3]
            IN  xor(<< InputBit(row, x, y, z),
                       Col(row, reg_c(x, z)),
                       Col(row, reg_c_prime(x, z)) >>)])

\* A''[x, y] = xor(B[x, y], andn(B[x + 1, y], B[x + 2, y]))
PopulateAPrimePrime(row) ==
    WriteCols(row, reg_a_prime_prime(0, 0),
        [j \in 1..Cardinality(DOMAIN KeyAPrimePrime) |->
            LET x == KeyAPrimePrime[reg_a_prime_prime(0, 0) + j - 1][1]
                y == KeyAPrimePrime[reg_a_prime_prime(0, 0) + j - 1][2]
                h == KeyAPrimePrime[reg_a_prime_prime(0, 0) + j - 1][3]
                get_bit(z) ==
                    xor(<< Col(row, reg_b(x, y, z)),
                           andn(Col(row, reg_b((x + 1) % 5, y, z)),
                                Col(row, reg_b((x + 2) % 5, y, z))) >>)
            IN  IF h = 0 THEN FoldDouble(get_bit, 0, LimbBits)
                ELSE FoldDouble(get_bit, LimbBits, LaneBits)])

\* mutant: the bits are stored from the highest down
SplitBitsHighFirst(row) ==
    LET val_lo == Col(row, reg_a_prime_prime(0, 0))
        val_hi == Col(row, reg_a_prime_prime(0, 0) + 1)
        val == val_lo + val_hi * LimbSize
    IN  WriteCols(row, reg_a_prime_prime_0_0_bit(0),
            [j \in 1..LaneBits |-> (val \div Pow2(LaneBits - j)) % 2])

\* For the XOR, A''[0, 0] is split to bits
SplitBits(row) ==
    LET val_lo == Col(row, reg_a_prime_prime(0, 0))
        val_hi == Col(row, reg_a_prime_prime(0, 0) + 1)
        val == val_lo + val_hi * LimbSize
    IN  WriteCols(row, reg_a_prime_prime_0_0_bit(0),
            [j \in 1..LaneBits |-> (val \div Pow2(j - 1)) % 2])

\* mutant: the low limb is xor'd with the whole round constant
XorRoundConstantUnmasked(row, round) ==
    LET in_reg_lo == reg_a_prime_prime(0, 0)
        in_reg_hi == in_reg_lo + 1
        out_reg_lo == reg_a_prime_prime_prime(0, 0)
        out_reg_hi == out_reg_lo + 1
        rc_whole == FoldDouble(LAMBDA i : rc_value_bit(round, i), 0, LaneBits)
        lo == FConst(BitXor(Col(row, in_reg_lo), rc_whole, LaneBits))
        hi == FConst(BitXor(Col(row, in_reg_hi), rc_hi(round), LaneBits))
    IN  SetCol(SetCol(row, out_reg_lo, lo), out_reg_hi, hi)

\* mutant: the high limb is xor'd with the low half of the round constant
XorRoundConstantLowTwice(row, round) ==
    LET in_reg_lo == reg_a_prime_prime(0, 0)
        in_reg_hi == in_reg_lo + 1
        out_reg_lo == reg_a_prime_prime_prime(0, 0)
        out_reg_hi == out_reg_lo + 1
        lo == FConst(BitXor(Col(row, in_reg_lo), rc_lo(round), LaneBits))
        hi == FConst(BitXor(Col(row, in_reg_hi), rc_lo(round), LaneBits))
    IN  SetCol(SetCol(row, out_reg_lo, lo), out_reg_hi, hi)

\* A''[0, 0] is additionally xor'd with RC
XorRoundConstant(row, round) ==
    LET in_reg_lo == reg_a_prime_prime(0, 0)
        in_reg_hi == in_reg_lo + 1
        out_reg_lo == reg_a_prime_prime_prime(0, 0)
        out_reg_hi == out_reg_lo + 1
        lo == FConst(BitXor(Col(row, in_reg_lo), rc_lo(round), LaneBits))
        hi == FConst(BitXor(Col(row, in_reg_hi), rc_hi(round), LaneBits))
    IN  SetCol(SetCol(row, out_reg_lo, lo), out_reg_hi, hi)

generate_trace_row_for_round(row, round) ==
    XorRoundConstant(
        SplitBits(
            PopulateAPrimePrime(
                PopulateAPrime(PopulateCPrime(PopulateC(SetStep(row, round)))))),
        round)

\* mutant: the next round's input is taken before the round constant is
\* xor'd in
copy_output_before_iota(prev_row, next_row) ==
    WriteCols(next_row, reg_a(0, 0),
        [j \in 1..Cardinality(DOMAIN KeyA) |->
            LET x == KeyA[reg_a(0, 0) + j - 1][1]
                y == KeyA[reg_a(0, 0) + j - 1][2]
                h == KeyA[reg_a(0, 0) + j - 1][3]
            IN  Col(prev_row, reg_a_prime_prime(x, y) + h)])

copy_output_to_input(prev_row, next_row) ==
    WriteCols(next_row, reg_a(0, 0),
        [j \in 1..Cardinality(DOMAIN KeyA) |->
            LET x == KeyA[reg_a(0, 0) + j - 1][1]
                y == KeyA[reg_a(0, 0) + j - 1][2]
                h == KeyA[reg_a(0, 0) + j - 1][3]
            IN  Col(prev_row, reg_a_prime_prime_prime(x, y) + h)])

\* rows[0] loaded with the input lanes: lane (x, y) is input[y * 5 + x]
FirstRow(input) ==
    WriteCols(ZeroRow, reg_a(0, 0),
        [j \in 1..Cardinality(DOMAIN KeyA) |->
            LET x == KeyA[reg_a(0, 0) + j - 1][1]
                y == KeyA[reg_a(0, 0) + j - 1][2]
                h == KeyA[reg_a(0, 0) + j - 1][3]
                input_xy == input[y * 5 + x + 1]
            IN  IF h = 0 THEN FConst(input_xy % LimbSize)
                ELSE FConst(input_xy \div LimbSize)])

\* the rows of rounds 0..round of one permutation
RECURSIVE RowsUpTo(_, _)
RowsUpTo(input, round) ==
    IF round = 0
    THEN << generate_trace_row_for_round(FirstRow(input), 0) >>
    ELSE LET earlier == RowsUpTo(input, round - 1)
         IN  Append(earlier,
                    generate_trace_row_for_round(
                        copy_output_to_input(earlier[round], ZeroRow), round))

generate_trace_rows_for_perm(input) == RowsUpTo(input, NUM_ROUNDS - 1)

\* --------------------------------------------- reference permutation

LaneSize == Pow2(LaneBits)

RECURSIVE BitAnd(_, _, _)
BitAnd(a, b, n) ==
    IF n = 0 THEN 0
    ELSE ((a % 2) * (b % 2)) + 2 * BitAnd(a \div 2, b \div 2, n - 1)

BitNot(a) == (LaneSize - 1) - a

rotate_left(v, n) ==
    LET k == n % LaneBits
    IN  ((v * Pow2(k)) % LaneSize) + (v \div Pow2(LaneBits - k))

\* the lane's value of a round constant
rc_value(round) == FoldDouble(LAMBDA i : rc_value_bit(round, i), 0, LaneBits)

RHO ==
    << 1, 3, 6, 10, 15, 21, 28, 36, 45, 55, 2, 14,
       27, 41, 56, 8, 25, 43, 62, 18, 39, 61, 20, 44 >>

PI ==
    << 10, 7, 11, 17, 18, 3, 5, 16, 8, 21, 24, 4,
       15, 23, 19, 13, 12, 2, 20, 14, 22, 9, 6, 1 >>

\* the state is a sequence of 25 lanes, lane (x, y) at position 5 * y + x + 1
Xor(a, b) == BitXor(a, b, LaneBits)

KeccakTheta(a) ==
    LET array == [x \in 0..4 |->
                    Xor(Xor(Xor(Xor(a[x + 1], a[x + 6]), a[x + 11]), a[x + 16]),
                        a[x + 21])]
    IN  Stored([i \in 1..25 |->
            LET x == (i - 1) % 5
            IN  Xor(a[i], Xor(array[(x + 4) % 5],
                              rotate_left(array[(x + 1) % 5], 1)))])

\* for x in 0..24: tmp = a[PI[x]]; a[PI[x]] = last.rotate_left(RHO[x]); last = tmp
\* with last = a[1] at the start: every lane but lane 0 is PI[x] for one x and
\* receives the lane the loop read one step earlier
PI_STEP == [lane \in 1..24 |-> CHOOSE k \in 1..24 : PI[k] = lane]

KeccakRhoPi(a) ==
    Stored([i \in 1..25 |->
        IF i = 1 THEN a[1]
        ELSE LET x == PI_STEP[i - 1]
                 last == IF x = 1 THEN a[2] ELSE a[PI[x - 1] + 1]
             IN  rotate_left(last, RHO[x])])

KeccakChi(a) ==
    Stored([i \in 1..25 |->
        LET x == (i - 1) % 5
            y == (i - 1) - x
        IN  Xor(a[y + x + 1],
                BitAnd(BitNot(a[y + ((x + 1) % 5) + 1]), a[y + ((x + 2) % 5) + 1],
                       LaneBits))])

KeccakIota(a, round) == [a EXCEPT ![1] = Xor(a[1], rc_value(round))]

KeccakRound(a, round) == KeccakIota(KeccakChi(KeccakRhoPi(KeccakTheta(a))), round)

\* the states before round 0, after round 0, ..., after round n - 1
RECURSIVE KeccakStates(_, _)
KeccakStates(a, n) ==
    IF n = 0 THEN << a >>
    ELSE LET states == KeccakStates(a, n - 1)
         IN  Append(states, KeccakRound(states[n], n - 1))

keccakf(state) == KeccakStates(state, NUM_ROUNDS)[NUM_ROUNDS + 1]

\* the 25 lanes held by the A''' limbs of a row
OutputLanes(row) ==
    [i \in 1..25 |->
        LET x == (i - 1) % 5
            y == (i - 1) \div 5
        IN  Col(row, reg_a_prime_prime_prime(x, y))
            + LimbSize * Col(row, reg_a_prime_prime_prime(x, y) + 1)]

\* ------------------------------------------------------- trace generator

RECURSIVE NextPow2From(_, _)
NextPow2From(p, n) == IF p >= n THEN p ELSE NextPow2From(2 * p, n)

\* mutant: the least multiple of 24 that is at least n (24 for n = 0)
whole_blocks(n) ==
    IF n = 0 THEN NUM_ROUNDS ELSE NUM_ROUNDS * ((n + NUM_ROUNDS - 1) \div NUM_ROUNDS)

\* usize::next_power_of_two: the least power of two >= n (1 for n = 0)
next_power_of_two(n) == NextPow2From(1, n)

Max(a, b) == IF a >= b THEN a ELSE b

\* mutant: the filter is set on the first row of the block, not the last
RECURSIVE RealRowsFilterFirst(_, _)
RealRowsFilterFirst(inputs, k) ==
    IF k = 0 THEN << >>
    ELSE LET rows == RealRowsFilterFirst(inputs, k - 1)
             rows_for_perm == generate_trace_rows_for_perm(inputs[k])
         IN  rows \o [rows_for_perm EXCEPT ![1] = SetCol(@, REG_FILTER, 1)]

\* for input in inputs: the instance's rows, filter set to 1 on the last one
RECURSIVE RealRows(_, _)
RealRows(inputs, k) ==
    IF k = 0 THEN << >>
    ELSE LET rows == RealRows(inputs, k - 1)
             rows_for_perm == generate_trace_rows_for_perm(inputs[k])
         IN  rows \o [rows_for_perm EXCEPT
                        ![NUM_ROUNDS] = SetCol(@, REG_FILTER, 1)]

\* mutant: the padding rows are put in front of the rows
RECURSIVE PadRowsInFront(_, _, _)
PadRowsInFront(rows, pad_rows, num_rows) ==
    IF Len(rows) < num_rows THEN PadRowsInFront(pad_rows \o rows, pad_rows, num_rows)
    ELSE rows

\* while rows.len() < num_rows { rows.extend(&pad_rows) }
RECURSIVE PadRows(_, _, _)
PadRows(rows, pad_rows, num_rows) ==
    IF Len(rows) < num_rows THEN PadRows(rows \o pad_rows, pad_rows, num_rows)
    ELSE rows

\* generate_trace_rows_for_perm([0; NUM_INPUTS])
ZeroInputRows == generate_trace_rows_for_perm([i \in 1..NUM_INPUTS |-> 0])

\* mutant: the rows past num_rows are kept (no drain)
PadAndDrainKeepsAll(rows, num_inputs, min_rows) ==
    LET num_rows == next_power_of_two(Max(num_inputs * NUM_ROUNDS, min_rows))
    IN  PadRows(rows, ZeroInputRows, num_rows)

\* generate_trace_rows once the loop over the inputs has produced rows
PadAndDrain(rows, num_inputs, min_rows) ==
    LET num_rows == next_power_of_two(Max(num_inputs * NUM_ROUNDS, min_rows))
        pad_rows == ZeroInputRows
        padded == PadRows(rows, pad_rows, num_rows)
    IN  \* rows.drain(num_rows..)
        SubSeq(padded, 1, num_rows)

generate_trace_rows(inputs, min_rows) ==
    PadAndDrain(RealRows(inputs, Len(inputs)), Len(inputs), min_rows)

\* mutant: each lane's high limb is written before its low limb
generate_public_inputs_hi_first(output) ==
    [j \in 1..(2 * NUM_INPUTS) |->
        LET i == (j - 1) \div 2
        IN  IF (j - 1) % 2 = 1 THEN FConst(output[i + 1] % LimbSize)
            ELSE FConst(output[i + 1] \div LimbSize)]

\* pi[2 * i] and pi[2 * i + 1]: the low and the high limb of output[i]
generate_public_inputs(output) ==
    [j \in 1..(2 * NUM_INPUTS) |->
        LET i == (j - 1) \div 2
        IN  IF (j - 1) % 2 = 0 THEN FConst(output[i + 1] % LimbSize)
            ELSE FConst(output[i + 1] \div LimbSize)]

\* ---------------------------------------------------- evaluator algebra

\* The evaluators are generic in the values they compute with (P: PackedField,
\* ExtensionTarget wires).  alg = "field": values are field elements.
\* alg = "degree": a value is the total degree of the polynomial the
\* expression is in the row and public-input values (a column is 1, a
\* constant 0, a sum the larger degree, a product the sum of the degrees).
Add(alg, a, b) == IF alg = "field" THEN (a + b) % FieldOrder ELSE Max(a, b)

Sub(alg, a, b) == IF alg = "field" THEN (a - b) % FieldOrder ELSE Max(a, b)

Mul(alg, a, b) == IF alg = "field" THEN (a * b) % FieldOrder ELSE a + b

Const(alg, n) == IF alg = "field" THEN n % FieldOrder ELSE 0

Doubles(alg, a) == Add(alg, a, a)

\* (lo..hi).rev().fold(P::ZEROS, |acc, z| acc.doubles() + get_bit(z))
RECURSIVE FoldDoubles(_, _, _, _)
FoldDoubles(alg, get_bit(_), lo, hi) ==
    IF lo >= hi THEN Const(alg, 0)
    ELSE Add(alg, Doubles(alg, FoldDoubles(alg, get_bit, lo + 1, hi)), get_bit(lo))

\* logic.rs: xor_gen(x, y) = x + y - x * y.doubles()
xor_gen(alg, x, y) == Sub(alg, Add(alg, x, y), Mul(alg, x, Doubles(alg, y)))

xor3_gen(alg, x, y, z) == xor_gen(alg, x, xor_gen(alg, y, z))

\* logic.rs: andn_gen(x, y) = (1 - x) * y
andn_gen(alg, x, y) == Mul(alg, Sub(alg, Const(alg, 1), x), y)

\* the loops "for x in 0..5 { for y in 0..5 { lo; hi } }" and
\* "for x in 0..5 { for z in 0..64 { .. } }" in the order they run
LoopXYH ==
    [j \in 1..(5 * 5 * 2) |-> << (j - 1) \div 10, ((j - 1) \div 2) % 5, (j - 1) % 2 >>]

LoopXZ == [j \in 1..(5 * LaneBits) |-> << (j - 1) \div LaneBits, (j - 1) % LaneBits >>]

\* ---------------------------------------------------- native evaluator

\* A yielded constraint is << kind, value >>: "constraint" holds on every row,
\* "transition" on every row but the last, "first_row" on row 0.

\* round_flags.rs: step[0] = 1 and the other flags 0 on the first row; the
\* flags rotate by one from a row to the next
eval_round_flags(alg, local_values, next_values) ==
    [i \in 1..NUM_ROUNDS |->
        << "first_row",
           IF i = 1 THEN Sub(alg, Col(local_values, reg_step(0)), Const(alg, 1))
           ELSE Col(local_values, reg_step(i - 1)) >>]
    \o
    [i \in 1..NUM_ROUNDS |->
        << "transition",
           Sub(alg, Col(next_values, reg_step(i % NUM_ROUNDS)),
                    Col(local_values, reg_step(i - 1))) >>]

\* The filter must be 0 or 1.  If this is not the final step, the filter must
\* be off.
FilterConstraints(alg, local_values) ==
    LET filter == Col(local_values, REG_FILTER)
        final_step == Col(local_values, reg_step(NUM_ROUNDS - 1))
        not_final_step == Sub(alg, Const(alg, 1), final_step)
    IN  << << "constraint", Mul(alg, filter, Sub(alg, filter, Const(alg, 1))) >>,
           << "constraint", Mul(alg, not_final_step, filter) >> >>

\* mutant: the output match is switched on by the first step flag
OutputConstraintsFirstRound(alg, local_values, pis) ==
    LET first_step == Col(local_values, reg_step(0))
    IN  [j \in 1..Len(LoopXYH) |->
            LET x == LoopXYH[j][1]
                y == LoopXYH[j][2]
                h == LoopXYH[j][3]
                output_limb == pis[2 * (5 * y + x) + h + 1]
                local_output == Col(local_values, reg_a_prime_prime_prime(x, y) + h)
            IN  << "transition", Mul(alg, first_step, Sub(alg, local_output, output_limb)) >>]

\* public inputs and outputs
OutputConstraints(alg, local_values, pis) ==
    LET filter == Col(local_values, REG_FILTER)
    IN  [j \in 1..Len(LoopXYH) |->
            LET x == LoopXYH[j][1]
                y == LoopXYH[j][2]
                h == LoopXYH[j][3]
                output_limb == pis[2 * (5 * y + x) + h + 1]
                local_output == Col(local_values, reg_a_prime_prime_prime(x, y) + h)
            IN  << "transition", Mul(alg, filter, Sub(alg, local_output, output_limb)) >>]

\* mutant: the theta constraint is multiplied by the filter
ThetaConstraintsFiltered(alg, local_values) ==
    [j \in 1..Len(LoopXZ) |->
        LET x == LoopXZ[j][1]
            z == LoopXZ[j][2]
            xor3 == xor3_gen(alg,
                        Col(local_values, reg_c(x, z)),
                        Col(local_values, reg_c((x + 4) % 5, z)),
                        Col(local_values, reg_c((x + 1) % 5, (z + LaneBits - 1) % LaneBits)))
            c_prime == Col(local_values, reg_c_prime(x, z))
        IN  << "constraint",
               Mul(alg, Col(local_values, REG_FILTER), Sub(alg, c_prime, xor3)) >>]

\* C'[x, z] = xor(C[x, z], C[x - 1, z], C[x + 1, z - 1])
ThetaConstraints(alg, local_values) ==
    [j \in 1..Len(LoopXZ) |->
        LET x == LoopXZ[j][1]
            z == LoopXZ[j][2]
            xor3 == xor3_gen(alg,
                        Col(local_values, reg_c(x, z)),
                        Col(local_values, reg_c((x + 4) % 5, z)),
                        Col(local_values, reg_c((x + 1) % 5, (z + LaneBits - 1) % LaneBits)))
            c_prime == Col(local_values, reg_c_prime(x, z))
        IN  << "constraint", Sub(alg, c_prime, xor3) >>]

\* the input limbs are consistent with A' and D:
\* A[x, y, z] = xor(A'[x, y, z], C[x, z], C'[x, z])
InputConstraints(alg, local_values) ==
    [j \in 1..Len(LoopXYH) |->
        LET x == LoopXYH[j][1]
            y == LoopXYH[j][2]
            h == LoopXYH[j][3]
            a_limb == Col(local_values, reg_a(x, y) + h)
            get_bit(z) ==
                xor3_gen(alg,
                    Col(local_values, reg_a_prime(x, y, z)),
                    Col(local_values, reg_c(x, z)),
                    Col(local_values, reg_c_prime(x, z)))
            computed == FoldDoubles(alg, get_bit, h * LimbBits, (h + 1) * LimbBits)
        IN  << "constraint", Sub(alg, computed, a_limb) >>]

\* diff * (diff - 2) * (diff - 4) = 0, diff = sum_i A'[x, i, z] - C'[x, z]
ParityConstraints(alg, local_values) ==
    [j \in 1..Len(LoopXZ) |->
        LET x == LoopXZ[j][1]
            z == LoopXZ[j][2]
            a(i) == Col(local_values, reg_a_prime(x, i, z))
            sum == Add(alg, Add(alg, Add(alg, Add(alg,
                       Add(alg, Const(alg, 0), a(0)), a(1)), a(2)), a(3)), a(4))
            diff == Sub(alg, sum, Col(local_values, reg_c_prime(x, z)))
        IN  << "constraint",
               Mul(alg, Mul(alg, diff, Sub(alg, diff, Const(alg, 2))),
                        Sub(alg, diff, Const(alg, 4))) >>]

\* mutant: the chi constraint is switched on by the filter
ChiConstraintsFiltered(alg, local_values) ==
    [j \in 1..Len(LoopXYH) |->
        LET x == LoopXYH[j][1]
            y == LoopXYH[j][2]
            h == LoopXYH[j][3]
            get_bit(z) ==
                xor_gen(alg,
                    Col(local_values, reg_b(x, y, z)),
                    andn_gen(alg,
                        Col(local_values, reg_b((x + 1) % 5, y, z)),
                        Col(local_values, reg_b((x + 2) % 5, y, z))))
            limb == Col(local_values, reg_a_prime_prime(x, y) + h)
            computed == FoldDoubles(alg, get_bit, h * LimbBits, (h + 1) * LimbBits)
        IN  << "constraint",
               Mul(alg, Col(local_values, REG_FILTER), Sub(alg, computed, limb)) >>]

\* A''[x, y] = xor(B[x, y], andn(B[x + 1, y], B[x + 2, y]))
ChiConstraints(alg, local_values) ==
    [j \in 1..Len(LoopXYH) |->
        LET x == LoopXYH[j][1]
            y == LoopXYH[j][2]
            h == LoopXYH[j][3]
            get_bit(z) ==
                xor_gen(alg,
                    Col(local_values, reg_b(x, y, z)),
                    andn_gen(alg,
                        Col(local_values, reg_b((x + 1) % 5, y, z)),
                        Col(local_values, reg_b((x + 2) % 5, y, z))))
            limb == Col(local_values, reg_a_prime_prime(x, y) + h)
            computed == FoldDoubles(alg, get_bit, h * LimbBits, (h + 1) * LimbBits)
        IN  << "constraint", Sub(alg, computed, limb) >>]

\* the bits of A''[0, 0] rebuild its limbs
BitsConstraints(alg, local_values) ==
    LET bit(i) == Col(local_values, reg_a_prime_prime_0_0_bit(i))
        computed_lo == FoldDoubles(alg, bit, 0, LimbBits)
        computed_hi == FoldDoubles(alg, bit, LimbBits, LaneBits)
        a_prime_prime_0_0_lo == Col(local_values, reg_a_prime_prime(0, 0))
        a_prime_prime_0_0_hi == Col(local_values, reg_a_prime_prime(0, 0) + 1)
    IN  << << "constraint", Sub(alg, computed_lo, a_prime_prime_0_0_lo) >>,
           << "constraint", Sub(alg, computed_hi, a_prime_prime_0_0_hi) >> >>

\* rc_bit_i += this_round * this_round_constant, for r in 0..NUM_ROUNDS
RECURSIVE RcBitSum(_, _, _, _)
RcBitSum(alg, local_values, i, r) ==
    IF r = 0 THEN Const(alg, 0)
    ELSE Add(alg, RcBitSum(alg, local_values, i, r - 1),
             Mul(alg, Col(local_values, reg_step(r - 1)),
                      Const(alg, rc_value_bit(r - 1, i))))

\* A'''[0, 0] = A''[0, 0] XOR RC
IotaConstraints(alg, local_values) ==
    LET get_xored_bit(i) ==
            xor_gen(alg, Col(local_values, reg_a_prime_prime_0_0_bit(i)),
                         RcBitSum(alg, local_values, i, NUM_ROUNDS))
        a_prime_prime_prime_0_0_lo == Col(local_values, reg_a_prime_prime_prime(0, 0))
        a_prime_prime_prime_0_0_hi == Col(local_values, reg_a_prime_prime_prime(0, 0) + 1)
        computed_lo == FoldDoubles(alg, get_xored_bit, 0, LimbBits)
        computed_hi == FoldDoubles(alg, get_xored_bit, LimbBits, LaneBits)
    IN  << << "constraint", Sub(alg, computed_lo, a_prime_prime_prime_0_0_lo) >>,
           << "constraint", Sub(alg, computed_hi, a_prime_prime_prime_0_0_hi) >> >>

\* this round's output equals the next round's input
ChainConstraints(alg, local_values, next_values) ==
    [j \in 1..Len(LoopXYH) |->
        LET x == LoopXYH[j][1]
            y == LoopXYH[j][2]
            h == LoopXYH[j][3]
            output_limb == Col(local_values, reg_a_prime_prime_prime(x, y) + h)
            input_limb == Col(next_values, reg_a(x, y) + h)
            is_last_round == Col(local_values, reg_step(NUM_ROUNDS - 1))
            not_last_round == Sub(alg, Const(alg, 1), is_last_round)
        IN  << "transition", Mul(alg, not_last_round, Sub(alg, output_limb, input_limb)) >>]

\* the constraints in the order eval_packed_generic yields them (the pulse
\* columns sit beyond NUM_COLUMNS, outside the rows generate_trace_rows
\* returns, and are not part of the model)
eval_packed_generic(alg, local_values, next_values, pis) ==
    eval_round_flags(alg, local_values, next_values)
    \o FilterConstraints(alg, local_values)
    \o OutputConstraints(alg, local_values, pis)
    \o ThetaConstraints(alg, local_values)
    \o InputConstraints(alg, local_values)
    \o ParityConstraints(alg, local_values)
    \o ChiConstraints(alg, local_values)
    \o BitsConstraints(alg, local_values)
    \o IotaConstraints(alg, local_values)
    \o ChainConstraints(alg, local_values, next_values)

\* --------------------------------------------------- circuit evaluator

\* CircuitBuilder operations on extension targets, by the value of the wire
\* they return
add_extension(alg, a, b) == Add(alg, a, b)

sub_extension(alg, a, b) == Sub(alg, a, b)

mul_extension(alg, a, b) == Mul(alg, a, b)

\* a * b - c
mul_sub_extension(alg, a, b, c) == Sub(alg, Mul(alg, a, b), c)

\* a * b + c
mul_add_extension(alg, a, b, c) == Add(alg, Mul(alg, a, b), c)

\* const_0 * multiplicand_0 * multiplicand_1 + const_1 * addend
arithmetic_extension(alg, const_0, const_1, multiplicand_0, multiplicand_1, addend) ==
    Add(alg,
        Mul(alg, Const(alg, const_0), Mul(alg, multiplicand_0, multiplicand_1)),
        Mul(alg, Const(alg, const_1), addend))

RECURSIVE add_many_extension(_, _)
add_many_extension(alg, terms) ==
    IF terms = << >> THEN Const(alg, 0)
    ELSE add_extension(alg, add_many_extension(alg, SubSeq(terms, 1, Len(terms) - 1)),
                       terms[Len(terms)])

RECURSIVE mul_many_extension(_, _)
mul_many_extension(alg, terms) ==
    IF terms = << >> THEN Const(alg, 1)
    ELSE mul_extension(alg, mul_many_extension(alg, SubSeq(terms, 1, Len(terms) - 1)),
                       terms[Len(terms)])

\* sum of terms[i] * alpha^i: from the last term, sum = sum * alpha + term
RECURSIVE reduce_with_powers_ext_circuit(_, _, _)
reduce_with_powers_ext_circuit(alg, terms, alpha) ==
    IF terms = << >> THEN Const(alg, 0)
    ELSE mul_add_extension(alg,
             reduce_with_powers_ext_circuit(alg, Tail(terms), alpha), alpha, Head(terms))

\* logic.rs: arithmetic_extension(-2, 1, x, y, x + y)
xor_gen_circuit(alg, x, y) ==
    arithmetic_extension(alg, -2, 1, x, y, add_extension(alg, x, y))

xor3_gen_circuit(alg, x, y, z) == xor_gen_circuit(alg, xor_gen_circuit(alg, x, y), z)

\* logic.rs: (1 - x) y = -xy + y
andn_gen_circuit(alg, x, y) == arithmetic_extension(alg, -1, 1, x, y, y)

\* round_flags.rs, on targets
eval_round_flags_recursively(alg, local_values, next_values) ==
    [i \in 1..NUM_ROUNDS |->
        << "first_row",
           IF i = 1
           THEN sub_extension(alg, Col(local_values, reg_step(0)), Const(alg, 1))
           ELSE Col(local_values, reg_step(i - 1)) >>]
    \o
    [i \in 1..NUM_ROUNDS |->
        << "transition",
           sub_extension(alg, Col(next_values, reg_step(i % NUM_ROUNDS)),
                              Col(local_values, reg_step(i - 1))) >>]

FilterCircuit(alg, local_values) ==
    LET filter == Col(local_values, REG_FILTER)
        final_step == Col(local_values, reg_step(NUM_ROUNDS - 1))
        not_final_step == sub_extension(alg, Const(alg, 1), final_step)
    IN  << << "constraint", mul_sub_extension(alg, filter, filter, filter) >>,
           << "constraint", mul_extension(alg, not_final_step, filter) >> >>

OutputCircuit(alg, local_values, pis) ==
    LET filter == Col(local_values, REG_FILTER)
    IN  [j \in 1..Len(LoopXYH) |->
            LET x == LoopXYH[j][1]
                y == LoopXYH[j][2]
                h == LoopXYH[j][3]
                output_limb == pis[2 * (5 * y + x) + h + 1]
                local_output == Col(local_values, reg_a_prime_prime_prime(x, y) + h)
                diff == sub_extension(alg, local_output, output_limb)
            IN  << "transition", mul_extension(alg, filter, diff) >>]

ThetaCircuit(alg, local_values) ==
    [j \in 1..Len(LoopXZ) |->
        LET x == LoopXZ[j][1]
            z == LoopXZ[j][2]
            xor3 == xor3_gen_circuit(alg,
                        Col(local_values, reg_c(x, z)),
                        Col(local_values, reg_c((x + 4) % 5, z)),
                        Col(local_values, reg_c((x + 1) % 5, (z + LaneBits - 1) % LaneBits)))
            c_prime == Col(local_values, reg_c_prime(x, z))
        IN  << "constraint", sub_extension(alg, c_prime, xor3) >>]

InputCircuit(alg, local_values) ==
    [j \in 1..Len(LoopXYH) |->
        LET x == LoopXYH[j][1]
            y == LoopXYH[j][2]
            h == LoopXYH[j][3]
            a_limb == Col(local_values, reg_a(x, y) + h)
            bits == [i \in 1..LimbBits |->
                        LET z == h * LimbBits + i - 1
                        IN  xor3_gen_circuit(alg,
                                Col(local_values, reg_a_prime(x, y, z)),
                                Col(local_values, reg_c(x, z)),
                                Col(local_values, reg_c_prime(x, z)))]
            computed == reduce_with_powers_ext_circuit(alg, bits, Const(alg, 2))
        IN  << "constraint", sub_extension(alg, computed, a_limb) >>]

\* mutant: the last factor of the parity constraint is diff - 3
ParityCircuitOffByOne(alg, local_values) ==
    [j \in 1..Len(LoopXZ) |->
        LET x == LoopXZ[j][1]
            z == LoopXZ[j][2]
            sum == add_many_extension(alg,
                       [i \in 1..5 |-> Col(local_values, reg_a_prime(x, i - 1, z))])
            diff == sub_extension(alg, sum, Col(local_values, reg_c_prime(x, z)))
            diff_minus_two == sub_extension(alg, diff, Const(alg, 2))
            diff_minus_four == sub_extension(alg, diff, Const(alg, 3))
        IN  << "constraint",
               mul_many_extension(alg, << diff, diff_minus_two, diff_minus_four >>) >>]

ParityCircuit(alg, local_values) ==
    [j \in 1..Len(LoopXZ) |->
        LET x == LoopXZ[j][1]
            z == LoopXZ[j][2]
            sum == add_many_extension(alg,
                       [i \in 1..5 |-> Col(local_values, reg_a_prime(x, i - 1, z))])
            diff == sub_extension(alg, sum, Col(local_values, reg_c_prime(x, z)))
            diff_minus_two == sub_extension(alg, diff, Const(alg, 2))
            diff_minus_four == sub_extension(alg, diff, Const(alg, 4))
        IN  << "constraint",
               mul_many_extension(alg, << diff, diff_minus_two, diff_minus_four >>) >>]

ChiCircuit(alg, local_values) ==
    [j \in 1..Len(LoopXYH) |->
        LET x == LoopXYH[j][1]
            y == LoopXYH[j][2]
            h == LoopXYH[j][3]
            bits == [i \in 1..LimbBits |->
                        LET z == h * LimbBits + i - 1
                            andn_bit == andn_gen_circuit(alg,
                                        Col(local_values, reg_b((x + 1) % 5, y, z)),
                                        Col(local_values, reg_b((x + 2) % 5, y, z)))
                        IN  xor_gen_circuit(alg, Col(local_values, reg_b(x, y, z)), andn_bit)]
            limb == Col(local_values, reg_a_prime_prime(x, y) + h)
            computed == reduce_with_powers_ext_circuit(alg, bits, Const(alg, 2))
        IN  << "constraint", sub_extension(alg, computed, limb) >>]

BitsCircuit(alg, local_values) ==
    LET a_prime_prime_0_0_bits ==
            [i \in 1..LaneBits |-> Col(local_values, reg_a_prime_prime_0_0_bit(i - 1))]
        computed_lo == reduce_with_powers_ext_circuit(alg,
                           SubSeq(a_prime_prime_0_0_bits, 1, LimbBits), Const(alg, 2))
        computed_hi == reduce_with_powers_ext_circuit(alg,
                           SubSeq(a_prime_prime_0_0_bits, LimbBits + 1, LaneBits), Const(alg, 2))
        a_prime_prime_0_0_lo == Col(local_values, reg_a_prime_prime(0, 0))
        a_prime_prime_0_0_hi == Col(local_values, reg_a_prime_prime(0, 0) + 1)
    IN  << << "constraint", sub_extension(alg, computed_lo, a_prime_prime_0_0_lo) >>,
           << "constraint", sub_extension(alg, computed_hi, a_prime_prime_0_0_hi) >> >>

\* rc_bit_i = mul_add_extension(this_round, this_round_constant, rc_bit_i)
RECURSIVE RcBitCircuit(_, _, _, _)
RcBitCircuit(alg, local_values, i, r) ==
    IF r = 0 THEN Const(alg, 0)
    ELSE mul_add_extension(alg,
             Col(local_values, reg_step(r - 1)),
             Const(alg, rc_value_bit(r - 1, i)),
             RcBitCircuit(alg, local_values, i, r - 1))

IotaCircuit(alg, local_values) ==
    LET bits == [i \in 1..LaneBits |->
                    xor_gen_circuit(alg,
                        Col(local_values, reg_a_prime_prime_0_0_bit(i - 1)),
                        RcBitCircuit(alg, local_values, i - 1, NUM_ROUNDS))]
        a_prime_prime_prime_0_0_lo == Col(local_values, reg_a_prime_prime_prime(0, 0))
        a_prime_prime_prime_0_0_hi == Col(local_values, reg_a_prime_prime_prime(0, 0) + 1)
        computed_lo == reduce_with_powers_ext_circuit(alg,
                           SubSeq(bits, 1, LimbBits), Const(alg, 2))
        computed_hi == reduce_with_powers_ext_circuit(alg,
                           SubSeq(bits, LimbBits + 1, LaneBits), Const(alg, 2))
    IN  << << "constraint", sub_extension(alg, computed_lo, a_prime_prime_prime_0_0_lo) >>,
           << "constraint", sub_extension(alg, computed_hi, a_prime_prime_prime_0_0_hi) >> >>

\* diff = input - output; is_last_round * diff - diff
ChainCircuit(alg, local_values, next_values) ==
    [j \in 1..Len(LoopXYH) |->
        LET x == LoopXYH[j][1]
            y == LoopXYH[j][2]
            h == LoopXYH[j][3]
            output_limb == Col(local_values, reg_a_prime_prime_prime(x, y) + h)
            input_limb == Col(next_values, reg_a(x, y) + h)
            is_last_round == Col(local_values, reg_step(NUM_ROUNDS - 1))
            diff == sub_extension(alg, input_limb, output_limb)
        IN  << "transition", mul_sub_extension(alg, is_last_round, diff, diff) >>]

eval_ext_circuit(alg, local_values, next_values, pis) ==
    eval_round_flags_recursively(alg, local_values, next_values)
    \o FilterCircuit(alg, local_values)
    \o OutputCircuit(alg, local_values, pis)
    \o ThetaCircuit(alg, local_values)
    \o InputCircuit(alg, local_values)
    \o ParityCircuit(alg, local_values)
    \o ChiCircuit(alg, local_values)
    \o BitsCircuit(alg, local_values)
    \o IotaCircuit(alg, local_values)
    \o ChainCircuit(alg, local_values, next_values)

\* fn constraint_degree(&self) -> usize { 3 }
constraint_degree == 3

\* ------------------------------------------------------------ the system

VARIABLES
    pc,             \* "start", "rows" (table generated), "proving" (public inputs
                    \* set), "native" and "circuit" (a row evaluated by the native
                    \* and then by the circuit evaluator), "tampered"
    inputs,         \* the instances handed to generate_trace_rows
    min_rows,       \* its min_rows argument
    rows,           \* the table it returned
    output,         \* the output state handed to generate_public_inputs
    public_inputs,  \* the vector it returned
    tampered,       \* << row, column, bit >> flipped in the table, << >> if none
    evaluated,      \* the row the evaluators were run on, -1 if none
    native,         \* the constraints eval_packed_generic yielded there
    circuit         \* the constraints eval_ext_circuit yielded there

vars ==
    << pc, inputs, min_rows, rows, output, public_inputs,
       tampered, evaluated, native, circuit >>

\* a 25-lane instance per seed; Instance(0) is the all-zero input of padding
Instance(s) ==
    [i \in 1..NUM_INPUTS |->
        (s * (i * i + 3 * i + 1) + (s \div 2) * 5 * i) % LaneSize]

\* k instances, starting at seed s and moving on by d seeds
InputsOf(s, k, d) == [j \in 1..k |-> Instance((s + (j - 1) * d) % (MaxSeed + 1))]

InputChoices ==
    {InputsOf(s, k, d) : s \in 0..MaxSeed, k \in 0..MaxInstances, d \in 0..1}

MinRowsChoices == {m * MinRowsStep : m \in 0..MaxMinRowsSteps}

ZeroLanes == [i \in 1..NUM_INPUTS |-> 0]

ZeroPublicInputs == [j \in 1..(2 * NUM_INPUTS) |-> 0]

\* nothing tampered with, nothing evaluated
Untouched ==
    /\ tampered = << >>
    /\ evaluated = -1
    /\ native = << >>
    /\ circuit = << >>

Init ==
    /\ pc = "start"
    /\ inputs \in InputChoices
    /\ min_rows = 0
    /\ rows = << >>
    /\ output = ZeroLanes
    /\ public_inputs = ZeroPublicInputs
    /\ Untouched

\* the calls generate_trace_rows(ins, m) for every min_rows m drawn: the loop
\* over the inputs does not read min_rows and is run once for them all
Calls(ins) ==
    LET real == RealRows(ins, Len(ins))
    IN  {<< m, PadAndDrain(real, Len(ins), m) >> : m \in MinRowsChoices}

\* generate_trace_rows(inputs, min_rows)
GenerateTraceRows ==
    /\ pc = "start"
    /\ \E call \in Calls(inputs) :
           /\ min_rows' = call[1]
           /\ rows' = call[2]
    /\ pc' = "rows"
    /\ UNCHANGED << inputs, output, public_inputs, tampered, evaluated, native, circuit >>

\* expected = keccakf(input); generate_public_inputs(expected)
GeneratePublicInputs ==
    /\ pc = "rows"
    /\ \E j \in 1..Len(inputs) :
           /\ output' = keccakf(inputs[j])
           /\ public_inputs' = generate_public_inputs(output')
    /\ pc' = "proving"
    /\ UNCHANGED << inputs, min_rows, rows, tampered, evaluated, native, circuit >>

Next == GenerateTraceRows \/ GeneratePublicInputs

Spec == Init /\ [][Next]_vars

\* row i of the table, rows counted from 0
Row(i) == rows[i + 1]

NumRows == Len(rows)

\* ------------------------------------------------------------ properties

Generated == pc # "start"

RowIndices == 0..(NumRows - 1)

IsPowerOfTwo(n) == \E e \in 0..30 : n = Pow2From(e)

\* C5: generate_trace_rows returns exactly the least power of two that is at
\* least 24 * (number of instances) and at least min_rows: a power of two, no
\* smaller than either, and its half is smaller than one of them (or it is 1).
TableLength ==
    Generated =>
        LET wanted == Max(NUM_ROUNDS * Len(inputs), min_rows)
        IN  /\ IsPowerOfTwo(NumRows)
            /\ NumRows >= NUM_ROUNDS * Len(inputs)
            /\ NumRows >= min_rows
            /\ NumRows = 1 \/ NumRows \div 2 < wanted

\* a single instance with a min_rows above the 32 rows it would get alone
TableLengthWitness ==
    /\ pc = "rows"
    /\ Len(inputs) = 1
    /\ min_rows > 32
    /\ NumRows = 64

\* C6: the filter column is 1 on exactly the rows 24 * i + 23 of the real
\* instances i in 0..k-1 and 0 on every other row, padding rows included.
FilterPlacement ==
    Generated =>
        \A i \in RowIndices :
            Col(Row(i), REG_FILTER) =
                IF i % NUM_ROUNDS = NUM_ROUNDS - 1 /\ i \div NUM_ROUNDS < Len(inputs)
                THEN 1 ELSE 0

\* two real instances followed by padding rows
FilterPlacementWitness ==
    /\ pc = "rows"
    /\ Len(inputs) = 2
    /\ NumRows > 2 * NUM_ROUNDS
    /\ Col(Row(NUM_ROUNDS - 1), REG_FILTER) = 1
    /\ Col(Row(2 * NUM_ROUNDS - 1), REG_FILTER) = 1
    /\ Col(Row(NumRows - 1), REG_FILTER) = 0

\* C10: every row i of a generated table has step[i mod 24] = 1 and every
\* other step flag 0, in real blocks, padding blocks and a padding block cut
\* short; with one instance, row 24 has step[0] = 1 and rows 24.. have filter 0.
RoundOneHot ==
    Generated =>
        /\ \A i \in RowIndices : \A r \in 0..(NUM_ROUNDS - 1) :
               Col(Row(i), reg_step(r)) = IF r = i % NUM_ROUNDS THEN 1 ELSE 0
        /\ Len(inputs) = 1 =>
               /\ NumRows > NUM_ROUNDS
               /\ Col(Row(NUM_ROUNDS), reg_step(0)) = 1
               /\ \A i \in NUM_ROUNDS..(NumRows - 1) : Col(Row(i), REG_FILTER) = 0

\* one instance, and a last padding block cut short by the truncation
RoundOneHotWitness ==
    /\ pc = "rows"
    /\ Len(inputs) = 1
    /\ NumRows % NUM_ROUNDS # 0
    /\ NumRows > NUM_ROUNDS
    /\ Col(Row(NumRows - 1), reg_step((NumRows - 1) % NUM_ROUNDS)) = 1

\* the last row of the block of instance i (instances counted from 1)
FinalRow(i) == Row(NUM_ROUNDS * (i - 1) + NUM_ROUNDS - 1)

\* C1: for every instance placed at block i, the 25 lanes rebuilt from the
\* lo/hi limbs of A''' in row 24 * i + 23 (lane (x, y) at index 5 * y + x) are
\* the reference Keccak-f permutation of that instance.
RoundTrip ==
    pc = "rows" =>
        \A i \in 1..Len(inputs) : OutputLanes(FinalRow(i)) = keccakf(inputs[i])

\* two different non-zero instances in one table, each permuted to a state
\* that is not its input
RoundTripWitness ==
    /\ pc = "rows"
    /\ Len(inputs) = 2
    /\ inputs[1] # inputs[2]
    /\ inputs[1] # ZeroLanes
    /\ OutputLanes(FinalRow(1)) # inputs[1]
    /\ OutputLanes(FinalRow(2)) # OutputLanes(FinalRow(1))

\* ------------------------------------------------------------ proving

\* the evaluators are run on row i with the row after it, cyclically
NextRow(i) == Row((i + 1) % NumRows)

\* ConstraintConsumer: constraint() holds on every row, constraint_transition()
\* is multiplied by a factor that is zero on the last row,
\* constraint_first_row() by one that is zero off row 0
Enforced(kind, i) ==
    \/ kind = "constraint"
    \/ kind = "transition" /\ i # NumRows - 1
    \/ kind = "first_row" /\ i = 0

\* eval_packed_generic on a row of the table
EvaluateNative ==
    /\ pc = "proving"
    /\ \E i \in RowIndices :
           /\ evaluated' = i
           /\ native' = eval_packed_generic("field", Row(i), NextRow(i), public_inputs)
    /\ pc' = "native"
    /\ UNCHANGED << inputs, min_rows, rows, output, public_inputs, tampered, circuit >>

\* eval_ext_circuit on the same row
EvaluateCircuit ==
    /\ pc = "native"
    /\ circuit' = eval_ext_circuit("field", Row(evaluated), NextRow(evaluated), public_inputs)
    /\ pc' = "circuit"
    /\ UNCHANGED << inputs, min_rows, rows, output, public_inputs, tampered, evaluated, native >>

\* a proof of one permutation, as test_keccak_multi sets it up
SingleInputChoices == {<< Instance(s) >> : s \in 0..MaxSeed}

InitProve ==
    /\ pc = "start"
    /\ inputs \in SingleInputChoices
    /\ min_rows = 0
    /\ rows = << >>
    /\ output = ZeroLanes
    /\ public_inputs = ZeroPublicInputs
    /\ Untouched

NextProve ==
    \/ GenerateTraceRows
    \/ GeneratePublicInputs
    \/ EvaluateNative
    \/ EvaluateCircuit

SpecProve == InitProve /\ [][NextProve]_vars

\* the yielded constraints that are enforced on row i and are not zero
Failing(yielded, i) ==
    {j \in 1..Len(yielded) : Enforced(yielded[j][1], i) /\ yielded[j][2] # 0}

Limb(lane, h) == IF h = 0 THEN lane % LimbSize ELSE lane \div LimbSize

\* C7: in every generated table, every row that has a next row and whose
\* step[23] is not 1 hands its A''' limbs, lo and hi of all 25 lanes, to the
\* next row's A limbs; the chaining constraints are transition constraints
\* whose values are (1 - step[23]) * (A'''[x, y] - next A[x, y]), zero
\* whatever the limbs are when the row is a final round.
Chaining ==
    Generated =>
        \A i \in 0..(NumRows - 2) :
            LET final == Col(Row(i), reg_step(NUM_ROUNDS - 1))
                chain == ChainConstraints("field", Row(i), Row(i + 1))
            IN  /\ Len(chain) = 2 * NUM_INPUTS
                /\ \A j \in 1..Len(chain) :
                       LET x == LoopXYH[j][1]
                           y == LoopXYH[j][2]
                           h == LoopXYH[j][3]
                           out == Col(Row(i), reg_a_prime_prime_prime(x, y) + h)
                           in == Col(Row(i + 1), reg_a(x, y) + h)
                       IN  /\ final # 1 => in = out
                           /\ chain[j] = << "transition", FMul(FSub(1, final), FSub(out, in)) >>
                           /\ final = 1 => chain[j][2] = 0

\* the final round of a first instance is followed by the first round of a
\* second one, whose input is not the output before it
ChainingWitness ==
    /\ pc = "rows"
    /\ Len(inputs) = 2
    /\ Col(Row(NUM_ROUNDS - 1), reg_step(NUM_ROUNDS - 1)) = 1
    /\ \E x \in X5, y \in X5 :
           Col(Row(NUM_ROUNDS), reg_a(x, y)) #
               Col(Row(NUM_ROUNDS - 1), reg_a_prime_prime_prime(x, y))
    /\ \E x \in X5, y \in X5 :
           Col(Row(1), reg_a(x, y)) # Col(Row(0), reg_a(x, y))

\* C9: generate_public_inputs returns 50 elements, element 2 * (5 * y + x) the
\* low limb and element 2 * (5 * y + x) + 1 the high limb of lane (x, y) =
\* output[5 * y + x]; the output-match constraints read the same elements for
\* lane (x, y), the generator loads lane (x, y) of its input from
\* input[5 * y + x], and the vector made from the reference output of an
\* instance equals the A''' limbs of a row with the filter set.
PublicInputOrder ==
    pc = "proving" =>
        /\ Len(public_inputs) = 2 * NUM_INPUTS
        /\ \A x \in X5, y \in X5, h \in 0..1 :
               public_inputs[2 * (5 * y + x) + h + 1] = Limb(output[5 * y + x + 1], h)
        /\ \A i \in 1..Len(inputs) : \A x \in X5, y \in X5, h \in 0..1 :
               Col(Row(NUM_ROUNDS * (i - 1)), reg_a(x, y) + h) =
                   Limb(inputs[i][5 * y + x + 1], h)
        /\ \E i \in 1..Len(inputs) :
               /\ Col(FinalRow(i), REG_FILTER) = 1
               /\ \A x \in X5, y \in X5, h \in 0..1 :
                      Col(FinalRow(i), reg_a_prime_prime_prime(x, y) + h) =
                          public_inputs[2 * (5 * y + x) + h + 1]
               /\ \A c \in DOMAIN OutputConstraints("field", FinalRow(i), public_inputs) :
                      OutputConstraints("field", FinalRow(i), public_inputs)[c][2] = 0

\* an output whose lanes differ from their transposes and whose limbs differ
PublicInputOrderWitness ==
    /\ pc = "proving"
    /\ \E x \in X5, y \in X5 : output[5 * y + x + 1] # output[5 * x + y + 1]
    /\ \E i \in 1..NUM_INPUTS : Limb(output[i], 0) # Limb(output[i], 1)
    /\ \E i \in 1..Len(inputs) :
           \E x \in X5, y \in X5 : inputs[i][5 * y + x + 1] # inputs[i][5 * x + y + 1]

\* ------------------------------------------- the evaluators on any assignment

\* The evaluators take whatever local row, next row and public inputs they
\* are handed.  Assignments are drawn as rows of field elements that satisfy
\* no constraint in particular, as rows of a generated table, and as mixes.
Scramble(s, c) ==
    (s * s * c + (s + 1) * (c \div 3) + c * c * (s + 2) + 5 * s) % FieldOrder

AnyRow(s) == [c \in 1..NUM_COLUMNS |-> Scramble(s, c)]

AnyPublicInputs(s) == [j \in 1..(2 * NUM_INPUTS) |-> Scramble(s + 1, 2 * j + 1)]

SampleInput == Instance(MaxSeed)

SampleRows == generate_trace_rows(<< SampleInput >>, 0)

SamplePublicInputs == generate_public_inputs(keccakf(SampleInput))

RowChoices ==
    {AnyRow(s) : s \in 0..MaxAssignments}
    \cup {SampleRows[r] : r \in {1, NUM_ROUNDS - 1, NUM_ROUNDS, NUM_ROUNDS + 1}}

PublicInputChoices ==
    {AnyPublicInputs(s) : s \in 0..MaxAssignments} \cup {SamplePublicInputs}

InitCircuit ==
    /\ pc = "proving"
    /\ inputs = << >>
    /\ min_rows = 0
    /\ rows \in {<< l, n >> : l \in RowChoices, n \in RowChoices}
    /\ output = ZeroLanes
    /\ public_inputs \in PublicInputChoices
    /\ Untouched

NextCircuit == EvaluateNative \/ EvaluateCircuit

SpecCircuit == InitCircuit /\ [][NextCircuit]_vars

VariableRow == [c \in 1..NUM_COLUMNS |-> 1]

VariablePublicInputs == [j \in 1..(2 * NUM_INPUTS) |-> 1]

\* the degree of each constraint, in the order the evaluators yield them
NativeDegrees ==
    eval_packed_generic("degree", VariableRow, VariableRow, VariablePublicInputs)

CircuitDegrees ==
    eval_ext_circuit("degree", VariableRow, VariableRow, VariablePublicInputs)

TamperColumns ==
    {<< c, LimbBits >> : c \in DOMAIN KeyA}
    \cup {<< c, 1 >> : c \in DOMAIN KeyC}
    \cup {<< c, 1 >> : c \in DOMAIN KeyAPrime}
    \cup {<< c, LimbBits >> : c \in DOMAIN KeyAPrimePrime}
    \cup {<< reg_a_prime_prime_0_0_bit(i), 1 >> : i \in Zs}
    \cup {<< reg_a_prime_prime_prime(x, y) + h, LimbBits >> : x \in X5, y \in X5, h \in 0..1}

\* bit b of column c of row i is flipped and nothing else is changed
Tamper ==
    /\ pc = "proving"
    /\ \E i \in RowIndices : \E col \in TamperColumns : \E b \in 0..(col[2] - 1) :
           /\ tampered' = << i, col[1], b >>
           /\ rows' = [rows EXCEPT ![i + 1] =
                          SetCol(@, col[1], BitXor(Col(@, col[1]), Pow2(b), LimbBits))]
    /\ pc' = "tampered"
    /\ UNCHANGED << inputs, min_rows, output, public_inputs, evaluated, native, circuit >>

\* the table generated for one instance, with no min_rows: the rows of a
\* real permutation and, after them, rows of the padding permutation
InitTamper ==
    /\ pc = "rows"
    /\ inputs = << SampleInput >>
    /\ min_rows = 0
    /\ rows = generate_trace_rows(inputs, min_rows)
    /\ output = ZeroLanes
    /\ public_inputs = ZeroPublicInputs
    /\ Untouched

NextTamper == GeneratePublicInputs \/ Tamper

SpecTamper == InitTamper /\ [][NextTamper]_vars

\* the constraints of the native evaluator that fail on row i
FailingAt(i) ==
    Failing(eval_packed_generic("field", Row(i), NextRow(i), public_inputs), i)

\* C4: after a single bit of a row's A limb, C bit, A' bit, A'' limb,
\* A''[0, 0] bit or A''' limb is flipped in a generated table, some
\* constraint of the native evaluator that is enforced on that row, or on the
\* row before it, whose next row it is, is not zero.
TamperDetected ==
    pc = "tampered" =>
        \/ FailingAt(tampered[1]) # {}
        \/ tampered[1] > 0 /\ FailingAt(tampered[1] - 1) # {}

\* a flip in the last row of the table, where no transition constraint is
\* enforced, is caught by a constraint on the row itself
TamperDetectedWitness ==
    /\ pc = "tampered"
    /\ tampered[1] = NumRows - 1
    /\ tampered[2] \in DOMAIN KeyA
    /\ FailingAt(tampered[1]) # {}

\* ------------------------------------------------------------------ iota

\* a row in round r whose A''[0, 0] holds the lane value v, as the row is when
\* generate_trace_row_for_round has populated A''
IotaRow(r, v) ==
    SetCol(SetCol(SetStep(ZeroRow, r),
                  reg_a_prime_prime(0, 0), FConst(v % LimbSize)),
           reg_a_prime_prime(0, 0) + 1, FConst(v \div LimbSize))

\* the round a row is of, by its step flags
RoundOf(row) == CHOOSE r \in 0..(NUM_ROUNDS - 1) : Col(row, reg_step(r)) = 1

InitIota ==
    /\ pc = "populated"
    /\ inputs = << >>
    /\ min_rows = 0
    /\ rows \in {<< IotaRow(r, v) >> : r \in 0..(NUM_ROUNDS - 1), v \in 0..(LaneSize - 1)}
    /\ output = ZeroLanes
    /\ public_inputs = ZeroPublicInputs
    /\ Untouched

\* A''[0, 0] is split to bits
SplitToBits ==
    /\ pc = "populated"
    /\ rows' = << SplitBits(Row(0)) >>
    /\ pc' = "split"
    /\ UNCHANGED << inputs, min_rows, output, public_inputs,
                    tampered, evaluated, native, circuit >>

\* A''[0, 0] is xor'd with RC into A'''[0, 0]
XorWithRoundConstant ==
    /\ pc = "split"
    /\ rows' = << XorRoundConstant(Row(0), RoundOf(Row(0))) >>
    /\ pc' = "xored"
    /\ UNCHANGED << inputs, min_rows, output, public_inputs,
                    tampered, evaluated, native, circuit >>

NextIota == SplitToBits \/ XorWithRoundConstant

SpecIota == InitIota /\ [][NextIota]_vars

\* C11: for every round and every value of A''[0, 0], the limbs the generator
\* stores for A'''[0, 0], the integer xor of each limb of A''[0, 0] with its
\* half of the round constant, are the limbs the evaluator rebuilds from the
\* stored bits of A''[0, 0], each xor'd as a polynomial with the round
\* constant bit the step flags select; and the stored bits rebuild the stored
\* limbs of A''[0, 0].
IotaConsistent ==
    pc = "xored" =>
        LET row == Row(0)
            r == RoundOf(row)
            bit(i) == Col(row, reg_a_prime_prime_0_0_bit(i))
            rc_bit(i) == RcBitSum("field", row, i, NUM_ROUNDS)
            xored(i) == xor_gen("field", bit(i), rc_bit(i))
        IN  /\ Col(row, reg_a_prime_prime_prime(0, 0)) =
                   BitXor(Col(row, reg_a_prime_prime(0, 0)), rc_lo(r), LimbBits)
            /\ Col(row, reg_a_prime_prime_prime(0, 0) + 1) =
                   BitXor(Col(row, reg_a_prime_prime(0, 0) + 1), rc_hi(r), LimbBits)
            /\ \A i \in Zs : bit(i) \in {0, 1} /\ rc_bit(i) = rc_value_bit(r, i)
            /\ Col(row, reg_a_prime_prime_prime(0, 0)) =
                   FoldDoubles("field", xored, 0, LimbBits)
            /\ Col(row, reg_a_prime_prime_prime(0, 0) + 1) =
                   FoldDoubles("field", xored, LimbBits, LaneBits)
            /\ Col(row, reg_a_prime_prime(0, 0)) = FoldDoubles("field", bit, 0, LimbBits)
            /\ Col(row, reg_a_prime_prime(0, 0) + 1) =
                   FoldDoubles("field", bit, LimbBits, LaneBits)
            /\ \A j \in 1..2 :
                   /\ IotaConstraints("field", row)[j][2] = 0
                   /\ BitsConstraints("field", row)[j][2] = 0

\* a round whose constant changes both limbs, on a value with bits set in
\* both limbs, some of them cleared by the xor
IotaConsistentWitness ==
    /\ pc = "xored"
    /\ \A h \in 0..1 :
           /\ Col(Row(0), reg_a_prime_prime(0, 0) + h) # 0
           /\ Col(Row(0), reg_a_prime_prime_prime(0, 0) + h) <
                  Col(Row(0), reg_a_prime_prime(0, 0) + h)
    /\ RoundOf(Row(0)) > 0

\* ---------------------------------------------------------------- parity

\* sum over y of A'[x, y, z] minus C'[x, z], as an integer
ParityDiff(row, x, z) ==
    Col(row, reg_a_prime(x, 0, z)) + Col(row, reg_a_prime(x, 1, z))
    + Col(row, reg_a_prime(x, 2, z)) + Col(row, reg_a_prime(x, 3, z))
    + Col(row, reg_a_prime(x, 4, z)) - Col(row, reg_c_prime(x, z))

\* a row whose A'[x, y, z] is bits[y + 1] and whose C'[x, z] is bits[6], for
\* every x and z
BooleanRow(bits) ==
    [c \in 1..NUM_COLUMNS |->
        IF c - 1 \in DOMAIN KeyAPrime THEN bits[KeyAPrime[c - 1][2] + 1]
        ELSE IF c - 1 \in DOMAIN KeyCPrime THEN bits[6]
        ELSE 0]

\* on every choice of boolean values for five A' bits and a C' bit, a parity
\* constraint is zero exactly when the xor of the A' bits is the C' bit
ParityOnBooleans ==
    \A bits \in [1..6 -> {0, 1}] :
        \A j \in 1..Len(LoopXZ) :
            ParityConstraints("field", BooleanRow(bits))[j][2] = 0
                <=> xor(SubSeq(bits, 1, 5)) = bits[6]

\* C12: in every row of every generated table, for every x and z, the sum of
\* the five A'[x, y, z] minus C'[x, z] is 0, 2 or 4 and the parity constraint
\* diff * (diff - 2) * (diff - 4) is zero; and on boolean values of the five
\* A' bits and of C' that constraint is zero exactly when the xor of the five
\* bits is C'.
ParityCheck ==
    Generated =>
        /\ \A i \in RowIndices :
               /\ \A x \in X5, z \in Zs : ParityDiff(Row(i), x, z) \in {0, 2, 4}
               /\ \A j \in 1..Len(LoopXZ) :
                      ParityConstraints("field", Row(i))[j] = << "constraint", 0 >>
        /\ ParityOnBooleans

\* a generated row on which the three values of diff all occur
ParityCheckWitness ==
    /\ pc = "rows"
    /\ \E i \in RowIndices :
           \A d \in {0, 2, 4} : \E x \in X5, z \in Zs : ParityDiff(Row(i), x, z) = d

\* ---------------------------------------------------- block independence

\* what generate_trace_rows_for_perm returns for each instance taken alone,
\* with the filter set on the last row
BlockAlone ==
    Stored([j \in 1..(MaxSeed + 1) |->
        [generate_trace_rows_for_perm(Instance(j - 1)) EXCEPT
            ![NUM_ROUNDS] = SetCol(@, REG_FILTER, 1)]])

\* rows 24 * (i - 1) .. 24 * (i - 1) + 23 of the table (instances from 1)
Block(i) == SubSeq(rows, NUM_ROUNDS * (i - 1) + 1, NUM_ROUNDS * i)

\* C13: in a generated table the rows 24 * i .. 24 * i + 23 of instance i
\* are the rows generate_trace_rows_for_perm gives for that instance alone,
\* with filter 1 on the last of them, whatever the other instances, their
\* number and min_rows are; the blocks are in the order of the inputs and
\* none of their rows is dropped by the truncation.
BlockIndependence ==
    Generated =>
        /\ NumRows >= NUM_ROUNDS * Len(inputs)
        /\ \A i \in 1..Len(inputs) :
               \A s \in 0..MaxSeed : inputs[i] = Instance(s) => Block(i) = BlockAlone[s + 1]

\* two different instances and a min_rows that asks for more rows than they
\* fill, so that padding follows them
BlockIndependenceWitness ==
    /\ pc = "rows"
    /\ Len(inputs) = 2
    /\ inputs[1] # inputs[2]
    /\ Block(1) # Block(2)
    /\ \E s \in 0..MaxSeed : inputs[2] = Instance(s)
    /\ min_rows > 0
    /\ NumRows > 2 * NUM_ROUNDS

\* ------------------------------------------------------ the end of the table

\* C14: the length of a generated table is never a multiple of 24, so its
\* last row is not a final round (step[23] = 0) and has filter 0: the last
\* block is cut short, the wrap from the last row to row 0 is not a block
\* boundary, and every row with filter 1 has a next row, so that the
\* output-match constraints, yielded as transition constraints only, are
\* enforced on every row with filter 1.
NeverWholeBlocks ==
    Generated =>
        /\ NumRows % NUM_ROUNDS # 0
        /\ Col(Row(NumRows - 1), reg_step(NUM_ROUNDS - 1)) = 0
        /\ Col(Row(NumRows - 1), REG_FILTER) = 0
        /\ \A i \in RowIndices :
               Col(Row(i), REG_FILTER) = 1 =>
                   /\ i < NumRows - 1
                   /\ \A j \in 1..(2 * NUM_INPUTS) :
                          LET yielded == OutputConstraints("field", Row(i), public_inputs)[j]
                          IN  yielded[1] = "transition" /\ Enforced(yielded[1], i)

\* real instances whose last one ends before the table does, and a last row
\* in the middle of a padding block
NeverWholeBlocksWitness ==
    /\ pc = "rows"
    /\ Len(inputs) > 1
    /\ Col(Row(NUM_ROUNDS * Len(inputs) - 1), REG_FILTER) = 1
    /\ NumRows > NUM_ROUNDS * Len(inputs)
    /\ (NumRows - 1) % NUM_ROUNDS \notin {0, NUM_ROUNDS - 1}
    /\ Col(Row(NumRows - 1), reg_step((NumRows - 1) % NUM_ROUNDS)) = 1

\* ------------------------------------------------- one public-input vector

\* the rows with filter 1
FilterRows == {i \in RowIndices : Col(Row(i), REG_FILTER) = 1}

\* the A''' limbs of row i in the order of the public inputs
OutputLimbs(i) ==
    [j \in 1..(2 * NUM_INPUTS) |->
        LET lane == (j - 1) \div 2
        IN  Col(Row(i), reg_a_prime_prime_prime(lane % 5, lane \div 5) + ((j - 1) % 2))]

\* every output-match constraint is zero on row i with the public inputs pis
OutputMatches(i, pis) ==
    \A j \in 1..(2 * NUM_INPUTS) : OutputConstraints("field", Row(i), pis)[j][2] = 0

\* C15: the output-match constraints compare every row with filter 1, the
\* last row of every real instance, with the one public-input vector, and on
\* such a row they are all zero for one vector only, the A''' limbs of the
\* row; so the table of two or more instances passes the output match only
\* if the instances all have the output the vector was made from, and for
\* instances with different outputs no vector makes every constraint zero.
OneOutputOnly ==
    pc = "proving" =>
        /\ FilterRows = {NUM_ROUNDS * i - 1 : i \in 1..Len(inputs)}
        /\ \A i \in FilterRows :
               /\ Enforced("transition", i)
               /\ OutputMatches(i, OutputLimbs(i))
               /\ \A v \in 0..(FieldOrder - 1) : \A j \in 1..(2 * NUM_INPUTS) :
                      OutputConstraints("field", Row(i),
                                        [k \in 1..(2 * NUM_INPUTS) |-> v])[j][2] = 0
                          <=> OutputLimbs(i)[2 * (5 * LoopXYH[j][2] + LoopXYH[j][1])
                                             + LoopXYH[j][3] + 1] = v
        /\ (\A i \in FilterRows : OutputMatches(i, public_inputs))
               <=> (\A i \in 1..Len(inputs) : OutputLanes(FinalRow(i)) = output)
        /\ \A i1 \in FilterRows, i2 \in FilterRows :
               OutputLanes(Row(i1)) # OutputLanes(Row(i2))
                   => ~ OutputMatches(i2, OutputLimbs(i1))

\* two instances with different outputs: the public inputs made from the
\* output of the first match its last row and not the last row of the second
OneOutputOnlyWitness ==
    /\ pc = "proving"
    /\ Len(inputs) = 2
    /\ OutputLanes(FinalRow(1)) = output
    /\ OutputLanes(FinalRow(2)) # output
    /\ OutputMatches(NUM_ROUNDS - 1, public_inputs)
    /\ ~ OutputMatches(2 * NUM_ROUNDS - 1, public_inputs)
    /\ Enforced("transition", 2 * NUM_ROUNDS - 1)

\* ------------------------------------------------------- column ranges

\* the columns that hold a lo or hi limb of A, A'' or A'''
LimbColumns ==
    {reg_a(x, y) + h : x \in X5, y \in X5, h \in 0..1}
        \cup {reg_a_prime_prime(x, y) + h : x \in X5, y \in X5, h \in 0..1}
        \cup {reg_a_prime_prime_prime(x, y) + h : x \in X5, y \in X5, h \in 0..1}

\* the columns that hold one bit or flag
BitColumns ==
    {reg_step(i) : i \in 0..(NUM_ROUNDS - 1)}
        \cup {reg_c(x, z) : x \in X5, z \in Zs}
        \cup {reg_c_prime(x, z) : x \in X5, z \in Zs}
        \cup {reg_a_prime(x, y, z) : x \in X5, y \in X5, z \in Zs}
        \cup {reg_a_prime_prime_0_0_bit(i) : i \in 0..(LaneBits - 1)}
        \cup {REG_FILTER}

\* C16: in every row of every generated table each lo/hi limb column of A,
\* A'' and A''' holds a value of 0..2^LimbBits - 1 and each C, C', A', bit[i],
\* step and filter column holds 0 or 1; these are all the columns of the row.
ColumnRanges ==
    Generated =>
        /\ LimbColumns \cup BitColumns = Cols
        /\ LimbColumns \cap BitColumns = {}
        /\ \A i \in RowIndices :
               /\ \A c \in LimbColumns : Col(Row(i), c) \in 0..(LimbSize - 1)
               /\ \A c \in BitColumns : Col(Row(i), c) \in {0, 1}

\* a table of two instances and padding rows in which limbs of A, A'' and
\* A''' reach the largest limb value, in a real row and in a padding row
ColumnRangesWitness ==
    /\ pc = "rows"
    /\ Len(inputs) = 2
    /\ NumRows > NUM_ROUNDS * Len(inputs)
    /\ \E i \in 0..(NUM_ROUNDS * Len(inputs) - 1) :
           /\ \E c \in DOMAIN KeyA : Col(Row(i), c) = LimbSize - 1
           /\ \E c \in DOMAIN KeyAPrimePrime : Col(Row(i), c) = LimbSize - 1
           /\ Col(Row(i), REG_A_PRIME_PRIME_PRIME_0_0_LO) = LimbSize - 1
    /\ \E i \in (NUM_ROUNDS * Len(inputs))..(NumRows - 1) :
           \E c \in LimbColumns : Col(Row(i), c) = LimbSize - 1

====
